---- MODULE Spec2Model ----
(***************************************************************************)
(* Model of tempo-copy-worklog.py: main() validates the environment and    *)
(* the two week-start dates, then TempoWorklogCopier.copy_week fetches the  *)
(* source week's worklogs and, one worklog at a time, builds the shifted    *)
(* payload (prepare_new_worklog) and either posts it (post_worklog) or      *)
(* prints it (dry run).                                                     *)
(*                                                                          *)
(* Python strings that the program parses or formats (the dates) are        *)
(* sequences of one-character strings; other strings are opaque values.     *)
(* A Python dict is a function whose DOMAIN is the set of its keys.         *)
(***************************************************************************)
EXTENDS Integers, Sequences, FiniteSets, TLC

\* --------------------------------------------------------------------------
\* Bounds of the model
\* --------------------------------------------------------------------------

\* Longest list of worklogs the remote API answers the fetch with.
MaxBatch == 2

\* --------------------------------------------------------------------------
\* datetime.date: calendar arithmetic as the standard library computes it
\* (proleptic Gregorian ordinals, 0001-01-01 is day 1)
\* --------------------------------------------------------------------------

DigitChars == <<"0", "1", "2", "3", "4", "5", "6", "7", "8", "9">>

IsDigit(c) == \E k \in 1..10 : DigitChars[k] = c

DigitVal(c) == (CHOOSE k \in 1..10 : DigitChars[k] = c) - 1

IsLeap(year) == (year % 4 = 0) /\ ((year % 100 # 0) \/ (year % 400 = 0))

DaysInMonth(year, month) ==
    IF month = 2 THEN (IF IsLeap(year) THEN 29 ELSE 28)
    ELSE IF month \in {4, 6, 9, 11} THEN 30 ELSE 31

\* _DAYS_BEFORE_MONTH of a non-leap year
DaysBeforeMonthTable == <<0, 31, 59, 90, 120, 151, 181, 212, 243, 273, 304, 334>>

DaysBeforeMonth(year, month) ==
    DaysBeforeMonthTable[month] + (IF month > 2 /\ IsLeap(year) THEN 1 ELSE 0)

DaysBeforeYear(year) ==
    LET y == year - 1 IN y * 365 + (y \div 4) - (y \div 100) + (y \div 400)

\* date.toordinal()
Ymd2Ord(dt) == DaysBeforeYear(dt.year) + DaysBeforeMonth(dt.year, dt.month) + dt.day

\* date.fromordinal(): the 400/100/4/1-year cycle decomposition
Ord2Ymd(ordinal) ==
    LET DI400Y == DaysBeforeYear(401)
        DI100Y == DaysBeforeYear(101)
        DI4Y   == DaysBeforeYear(5)
        n0   == ordinal - 1
        n400 == n0 \div DI400Y
        r400 == n0 % DI400Y
        n100 == r400 \div DI100Y
        r100 == r400 % DI100Y
        n4   == r100 \div DI4Y
        r4   == r100 % DI4Y
        n1   == r4 \div 365
        n    == r4 % 365
        year == n400 * 400 + 1 + n100 * 100 + n4 * 4 + n1
        leapyear == (n1 = 3) /\ ((n4 # 24) \/ (n100 = 3))
        month0 == (n + 50) \div 32
        prec0  == DaysBeforeMonthTable[month0]
                    + (IF month0 > 2 /\ leapyear THEN 1 ELSE 0)
        month  == IF prec0 > n THEN month0 - 1 ELSE month0
        prec   == IF prec0 > n
                  THEN prec0 - (DaysInMonth(2001, month)
                                  + (IF month = 2 /\ leapyear THEN 1 ELSE 0))
                  ELSE prec0
    IN  IF n1 = 4 \/ n100 = 4
        THEN [year |-> year - 1, month |-> 12, day |-> 31]
        ELSE [year |-> year, month |-> month, day |-> n - prec + 1]

\* date + timedelta(days): through the ordinal
DateAddDays(dt, days) == Ord2Ymd(Ymd2Ord(dt) + days)

\* Variant of DateSub with the operands the wrong way round
DateSubSwapped(a, b) == Ymd2Ord(b) - Ymd2Ord(a)

\* date - date: a timedelta, kept as its signed number of days
DateSub(a, b) == Ymd2Ord(a) - Ymd2Ord(b)

\* --------------------------------------------------------------------------
\* strptime(s, "%Y-%m-%d") and strftime("%Y-%m-%d")
\* --------------------------------------------------------------------------

\* %m : 1[0-2] | 0[1-9] | [1-9]
MonthTok2(a, b) == (a = "1" /\ b \in {"0", "1", "2"})
                   \/ (a = "0" /\ IsDigit(b) /\ b # "0")

\* %d : 3[01] | [12]\d | 0[1-9] | [1-9] | " "[1-9]
DayTok2(a, b) == (a = "3" /\ b \in {"0", "1"})
                 \/ (a \in {"1", "2"} /\ IsDigit(b))
                 \/ (a \in {"0", " "} /\ IsDigit(b) /\ b # "0")

Tok1(a) == IsDigit(a) /\ a # "0"

\* Number of characters the %m directive consumes at position p (0: no match).
\* The two-character alternatives come first; the one-character alternative is
\* what the regex backtracks to when the "-" does not follow.
MonthWidth(s, p) ==
    IF Len(s) >= p + 2 /\ MonthTok2(s[p], s[p + 1]) /\ s[p + 2] = "-" THEN 2
    ELSE IF Len(s) >= p + 1 /\ Tok1(s[p]) /\ s[p + 1] = "-" THEN 1
    ELSE 0

DayWidth(s, p) ==
    IF Len(s) >= p + 1 /\ DayTok2(s[p], s[p + 1]) THEN 2
    ELSE IF Len(s) >= p /\ Tok1(s[p]) THEN 1
    ELSE 0

TokVal(s, p, w) ==
    IF w = 1 THEN DigitVal(s[p])
    ELSE (IF s[p] = " " THEN 0 ELSE 10 * DigitVal(s[p])) + DigitVal(s[p + 1])

\* datetime.datetime.strptime(s, "%Y-%m-%d").date(): [ok |-> TRUE, date |-> d],
\* or [ok |-> FALSE] where Python raises ValueError (no match, unconverted
\* data, year 0, day out of range for the month).
Strptime(s) ==
    IF ~(Len(s) >= 5 /\ (\A k \in 1..4 : IsDigit(s[k])) /\ s[5] = "-")
    THEN [ok |-> FALSE]
    ELSE LET mw == MonthWidth(s, 6)
             dp == 6 + mw + 1
             dw == IF mw = 0 THEN 0 ELSE DayWidth(s, dp)
         IN  IF mw = 0 \/ dw = 0 \/ dp + dw - 1 # Len(s)
             THEN [ok |-> FALSE]
             ELSE LET year  == 1000 * DigitVal(s[1]) + 100 * DigitVal(s[2])
                                 + 10 * DigitVal(s[3]) + DigitVal(s[4])
                      month == TokVal(s, 6, mw)
                      day   == TokVal(s, dp, dw)
                  IN  IF year < 1 \/ day > DaysInMonth(year, month)
                      THEN [ok |-> FALSE]
                      ELSE [ok |-> TRUE,
                            date |-> [year |-> year, month |-> month, day |-> day]]

Digit(k) == DigitChars[k + 1]

\* date.strftime("%Y-%m-%d") for the years 1000..9999 (four digits of year)
Strftime(dt) ==
    << Digit(dt.year \div 1000), Digit((dt.year \div 100) % 10),
       Digit((dt.year \div 10) % 10), Digit(dt.year % 10), "-",
       Digit(dt.month \div 10), Digit(dt.month % 10), "-",
       Digit(dt.day \div 10), Digit(dt.day % 10) >>

\* --------------------------------------------------------------------------
\* The inputs of a run: environment, command line, the remote API's answers
\* --------------------------------------------------------------------------

None == "None"

\* os.getenv(...) of the two credentials: unset, set to the empty string, set
EnvTokenValues   == {None, "", "secret-token"}
EnvAccountValues == {None, "", "acct-operator"}

\* --source / --dest as typed by the operator; the last two are not dates
DateArgs ==
    { <<"2", "0", "2", "4", "-", "1", "-", "2", "9">>,
      <<"2", "0", "2", "4", "-", "0", "2", "-", "0", "1">>,
      <<"2", "0", "2", "3", "-", "1", "2", "-", "2", "5">>,
      <<"2", "0", "2", "4", "-", "0", "2", "-", "2", "6">>,
      <<"2", "0", "2", "4", "-", "0", "2", "-", "3", "0">>,
      <<"0", "2", "/", "2", "6", "/", "2", "0", "2", "4">> }

\* status codes the remote API answers the GET and the POST with
GetStatuses  == {200, 401, 500}
PostStatuses == {200, 299, 300, 500}

\* The worklogs the remote API can hold for the week starting at src: three
\* well-formed ones (all optional parts present; none present; "attributes"
\* without "values" and an empty description), one without "issue", one whose
\* startDate is no calendar date.
WorklogPool(src) ==
    { [ issue |-> [id |-> 101], startDate |-> Strftime(DateAddDays(src, 1)),
        startTime |-> "09:00:00", timeSpentSeconds |-> 3600,
        description |-> "Standup",
        attributes |-> [values |-> << [key |-> "_Account_", value |-> "ACME"] >>],
        author |-> [accountId |-> "acct-operator"] ],
      [ issue |-> [id |-> 202], startDate |-> Strftime(DateAddDays(src, 6)),
        startTime |-> "13:30:00", timeSpentSeconds |-> 1800,
        author |-> [accountId |-> "acct-other"] ],
      [ issue |-> [id |-> 101], startDate |-> Strftime(DateAddDays(src, 6)),
        startTime |-> "08:15:00", timeSpentSeconds |-> 0,
        description |-> "",
        attributes |-> [self |-> "https://api.tempo.io/4/worklogs/7/work-attribute-values"],
        author |-> [accountId |-> "acct-other"] ],
      [ startDate |-> Strftime(DateAddDays(src, 1)),
        startTime |-> "10:00:00", timeSpentSeconds |-> 600,
        author |-> [accountId |-> "acct-operator"] ],
      [ issue |-> [id |-> 202],
        startDate |-> <<"2", "0", "2", "4", "-", "0", "2", "-", "3", "0">>,
        startTime |-> "11:00:00", timeSpentSeconds |-> 900,
        author |-> [accountId |-> "acct-operator"] ] }

\* response.json()["results"]: any list of at most MaxBatch pooled worklogs
Batches(src) == UNION { [1..n -> WorklogPool(src)] : n \in 0..MaxBatch }

\* --------------------------------------------------------------------------
\* TempoWorklogCopier: the pure parts
\* --------------------------------------------------------------------------

\* Variant of Falsy that tests `is None` only
FalsyNoneOnly(v) == v = None

\* `not os.getenv(NAME)`: unset or empty
Falsy(v) == v = None \/ v = ""

\* Variant of RaiseForStatus for a fetch that never checks the status
RaiseForStatusNever(status) == FALSE

\* response.raise_for_status(): raises HTTPError for 4xx and 5xx
RaiseForStatus(status) == 400 <= status /\ status < 600

\* Variant of IsEmptyResult for a copy_week without the early return
IsEmptyResultNever(results) == FALSE

\* `not worklogs`
IsEmptyResult(results) == Len(results) = 0

\* post_worklog's test of the answer
PostSucceeded(status) == status >= 200 /\ status <= 299

\* worklog.get("attributes", {}).get("values", [])
AttributeValues(worklog) ==
    IF "attributes" \in DOMAIN worklog /\ "values" \in DOMAIN worklog.attributes
    THEN worklog.attributes.values
    ELSE << >>

\* Variant of DescriptionOf written `worklog.get("description") or "Copied worklog"`
DescriptionOfOrDefault(worklog) ==
    IF "description" \in DOMAIN worklog /\ worklog.description # ""
    THEN worklog.description
    ELSE "Copied worklog"

\* worklog.get("description", "Copied worklog")
DescriptionOf(worklog) ==
    IF "description" \in DOMAIN worklog THEN worklog.description
    ELSE "Copied worklog"

\* prepare_new_worklog: [ok |-> TRUE, payload |-> ...], or [ok |-> FALSE,
\* exc |-> ...] with the exception Python raises, in evaluation order.
PrepareNewWorklog(user_account_id, worklog, delta_days) ==
    IF "startDate" \notin DOMAIN worklog THEN [ok |-> FALSE, exc |-> "KeyError"]
    ELSE LET parsed == Strptime(worklog.startDate) IN
    IF ~parsed.ok THEN [ok |-> FALSE, exc |-> "ValueError"]
    ELSE IF \/ "issue" \notin DOMAIN worklog
            \/ "id" \notin DOMAIN worklog.issue
            \/ "timeSpentSeconds" \notin DOMAIN worklog
            \/ "startTime" \notin DOMAIN worklog
    THEN [ok |-> FALSE, exc |-> "KeyError"]
    ELSE [ok |-> TRUE,
          payload |->
            [ attributes       |-> AttributeValues(worklog),
              authorAccountId  |-> user_account_id,
              issueId          |-> worklog.issue.id,
              timeSpentSeconds |-> worklog.timeSpentSeconds,
              startDate        |-> Strftime(DateAddDays(parsed.date, delta_days)),
              startTime        |-> worklog.startTime,
              description      |-> DescriptionOf(worklog) ]]

\* --------------------------------------------------------------------------
\* State
\* --------------------------------------------------------------------------

VARIABLES
    env_token,          \* os.getenv("TEMPO_API_TOKEN")
    env_account,        \* os.getenv("JIRA_USER_ACCOUNT_ID")
    arg_source,         \* args.source
    arg_dest,           \* args.dest
    dry_run,            \* args.dry_run / self.dry_run
    pc,                 \* "main", "parse", "copy_week", "loop", "exit"
    source_start,       \* parsed dates of main (None before parsing)
    destination_start,
    worklogs,           \* copy_week's list (None before the fetch answers)
    delta_days,         \* copy_week's delta (None before it is computed)
    idx,                \* position of the for loop in worklogs, from 1
    gets,               \* GET requests issued, each with the answer's status
    posts,              \* POST requests issued, each with the answer's status
    payloads,           \* the payloads prepare_new_worklog has returned
    stdout,             \* what has been printed
    uncaught,           \* the exception that ended the run (None if none)
    exit_status         \* the process's exit status (None while running)

vars == << env_token, env_account, arg_source, arg_dest, dry_run, pc,
           source_start, destination_start, worklogs, delta_days, idx,
           gets, posts, payloads, stdout, uncaught, exit_status >>

inputs == << env_token, env_account, arg_source, arg_dest, dry_run >>

Init ==
    /\ env_token \in EnvTokenValues
    /\ env_account \in EnvAccountValues
    /\ arg_source \in DateArgs
    /\ arg_dest \in DateArgs
    /\ dry_run \in BOOLEAN
    /\ pc = "main"
    /\ source_start = None
    /\ destination_start = None
    /\ worklogs = None
    /\ delta_days = None
    /\ idx = 0
    /\ gets = << >>
    /\ posts = << >>
    /\ payloads = << >>
    /\ stdout = << >>
    /\ uncaught = None
    /\ exit_status = None

\* Variant of ExitWith that calls sys.exit() without the status
ExitWithDefaultStatus(msg, status) ==
    /\ stdout' = Append(stdout, msg)
    /\ exit_status' = 0
    /\ pc' = "exit"

\* print(msg), then the process ends with the status (sys.exit, or main returning)
ExitWith(msg, status) ==
    /\ stdout' = Append(stdout, msg)
    /\ exit_status' = status
    /\ pc' = "exit"

\* main, up to parse_args: the two credential checks
CheckEnv ==
    /\ pc = "main"
    /\ IF Falsy(env_token)
       THEN ExitWith([msg |-> "error_token_not_set"], 1)
       ELSE IF Falsy(env_account)
       THEN ExitWith([msg |-> "error_account_not_set"], 1)
       ELSE /\ pc' = "parse"
            /\ UNCHANGED << stdout, exit_status >>
    /\ UNCHANGED << inputs, source_start, destination_start, worklogs,
                    delta_days, idx, gets, posts, payloads, uncaught >>

\* main: both dates parsed inside one try; ValueError exits with status 1
ParseDates ==
    /\ pc = "parse"
    /\ LET s == Strptime(arg_source)
           d == Strptime(arg_dest)
       IN  IF s.ok /\ d.ok
           THEN /\ source_start' = s.date
                /\ destination_start' = d.date
                /\ pc' = "copy_week"
                /\ UNCHANGED << stdout, exit_status >>
           ELSE /\ ExitWith([msg |-> "error_date_format"], 1)
                /\ UNCHANGED << source_start, destination_start >>
    /\ UNCHANGED << inputs, worklogs, delta_days, idx, gets, posts, payloads,
                    uncaught >>

\* An exception nothing catches: the traceback is printed, the status is 1
Crash(exc, printed) ==
    /\ uncaught' = exc
    /\ stdout' = Append(printed, [msg |-> "traceback", exc |-> exc])
    /\ exit_status' = 1
    /\ pc' = "exit"

\* copy_week up to the loop: the fetch, the empty-result return, the delta
FetchWorklogs ==
    /\ pc = "copy_week"
    /\ \E status \in GetStatuses, results \in Batches(source_start) :
         LET end_date == DateAddDays(source_start, 6)
             request  == [user |-> env_account, from |-> Strftime(source_start),
                          to |-> Strftime(end_date), status |-> status]
             fetching == Append(stdout, [msg |-> "fetching",
                                         from |-> Strftime(source_start),
                                         to |-> Strftime(end_date)])
         IN  /\ gets' = Append(gets, request)
             /\ IF RaiseForStatus(status)
                THEN /\ Crash("HTTPError", fetching)
                     /\ UNCHANGED << worklogs, delta_days, idx >>
                ELSE /\ worklogs' = results
                     /\ uncaught' = uncaught
                     /\ IF IsEmptyResult(results)
                        THEN /\ stdout' = Append(fetching, [msg |-> "no_worklogs"])
                             /\ exit_status' = 0
                             /\ pc' = "exit"
                             /\ UNCHANGED << delta_days, idx >>
                        ELSE /\ stdout' = Append(fetching, [msg |-> "found",
                                                            count |-> Len(results)])
                             /\ delta_days' = DateSub(destination_start, source_start)
                             /\ idx' = 1
                             /\ exit_status' = exit_status
                             /\ pc' = "loop"
    /\ UNCHANGED << inputs, source_start, destination_start, posts, payloads >>

\* One iteration of copy_week's for loop: prepare, then print or post
CopyOne ==
    /\ pc = "loop"
    /\ idx <= Len(worklogs)
    /\ LET r == PrepareNewWorklog(env_account, worklogs[idx], delta_days) IN
       IF ~r.ok
       THEN /\ Crash(r.exc, stdout)
            /\ UNCHANGED << idx, posts, payloads >>
       ELSE /\ payloads' = Append(payloads, r.payload)
            /\ idx' = idx + 1
            /\ UNCHANGED << uncaught, exit_status, pc >>
            /\ IF dry_run
               THEN /\ stdout' = Append(stdout, [msg |-> "would_create",
                                                 payload |-> r.payload])
                    /\ posts' = posts
               ELSE \E status \in PostStatuses :
                    /\ posts' = Append(posts, [payload |-> r.payload,
                                               status |-> status])
                    /\ stdout' = Append(stdout,
                         IF PostSucceeded(status)
                         THEN [msg |-> "created", startDate |-> r.payload.startDate,
                               issueId |-> r.payload.issueId]
                         ELSE [msg |-> "failed", status |-> status])
    /\ UNCHANGED << inputs, source_start, destination_start, worklogs,
                    delta_days, gets >>

\* After the loop: the summary line, then main returns and the process ends
Summary ==
    /\ pc = "loop"
    /\ idx > Len(worklogs)
    /\ ExitWith(IF dry_run THEN [msg |-> "dry_run_complete"]
                ELSE [msg |-> "all_copied"], 0)
    /\ UNCHANGED << inputs, source_start, destination_start, worklogs,
                    delta_days, idx, gets, posts, payloads, uncaught >>

Next == CheckEnv \/ ParseDates \/ FetchWorklogs \/ CopyOne \/ Summary

Spec == Init /\ [][Next]_vars

\* --------------------------------------------------------------------------
\* The calendar and the record shapes the properties are stated against
\* (written from the Gregorian rules, not from the program's arithmetic)
\* --------------------------------------------------------------------------

RefDigit == [c \in {"0", "1", "2", "3", "4", "5", "6", "7", "8", "9"} |->
               CASE c = "0" -> 0 [] c = "1" -> 1 [] c = "2" -> 2 [] c = "3" -> 3
                 [] c = "4" -> 4 [] c = "5" -> 5 [] c = "6" -> 6 [] c = "7" -> 7
                 [] c = "8" -> 8 [] c = "9" -> 9]

RefMonthLength(year, month) ==
    LET leap == (year % 400 = 0) \/ (year % 4 = 0 /\ year % 100 # 0)
    IN  << 31, IF leap THEN 29 ELSE 28, 31, 30, 31, 30, 31, 31, 30, 31, 30, 31 >>[month]

\* s is YYYY-MM-DD, zero padded, and names a day of the calendar
IsIsoDate(s) ==
    /\ Len(s) = 10
    /\ s[5] = "-" /\ s[8] = "-"
    /\ \A k \in {1, 2, 3, 4, 6, 7, 9, 10} : s[k] \in DOMAIN RefDigit
    /\ LET y == 1000 * RefDigit[s[1]] + 100 * RefDigit[s[2]]
                  + 10 * RefDigit[s[3]] + RefDigit[s[4]]
           m == 10 * RefDigit[s[6]] + RefDigit[s[7]]
           d == 10 * RefDigit[s[9]] + RefDigit[s[10]]
       IN  y >= 1 /\ m \in 1..12 /\ d >= 1 /\ d <= RefMonthLength(y, m)

IsoDate(s) ==
    [ year  |-> 1000 * RefDigit[s[1]] + 100 * RefDigit[s[2]]
                  + 10 * RefDigit[s[3]] + RefDigit[s[4]],
      month |-> 10 * RefDigit[s[6]] + RefDigit[s[7]],
      day   |-> 10 * RefDigit[s[9]] + RefDigit[s[10]] ]

\* Number of calendar days after a, up to and including b (a not after b):
\* the days are counted one by one, month by month.
RefDaysAfter(a, b) ==
    LET ma == a.year * 12 + a.month - 1
        mb == b.year * 12 + b.month - 1
    IN  Cardinality({ md \in (ma..mb) \X (1..31) :
                        /\ md[2] <= RefMonthLength(md[1] \div 12, (md[1] % 12) + 1)
                        /\ (md[1] > ma \/ md[2] > a.day)
                        /\ (md[1] < mb \/ md[2] <= b.day) })

RefNotAfter(a, b) ==
    \/ a.year < b.year
    \/ a.year = b.year /\ a.month < b.month
    \/ a.year = b.year /\ a.month = b.month /\ a.day <= b.day

\* b - a in calendar days, signed
RefDaysFromTo(a, b) ==
    IF RefNotAfter(a, b) THEN RefDaysAfter(a, b) ELSE 0 - RefDaysAfter(b, a)

\* A source record with every required field, and a startDate that is a date
WellFormed(w) ==
    /\ {"startDate", "issue", "timeSpentSeconds", "startTime"} \subseteq DOMAIN w
    /\ "id" \in DOMAIN w.issue
    /\ IsIsoDate(w.startDate)

\* --source / --dest values that are not YYYY-MM-DD dates
NotADate(arg) ==
    arg \in { <<"2", "0", "2", "4", "-", "0", "2", "-", "3", "0">>,
              <<"0", "2", "/", "2", "6", "/", "2", "0", "2", "4">> }

StartupError ==
    \/ env_token \in {None, ""}
    \/ env_account \in {None, ""}
    \/ NotADate(arg_source)
    \/ NotADate(arg_dest)

Exited == pc = "exit"

\* the GET was answered with an error status / with a list of worklogs
FetchFailed == gets # << >> /\ gets[Len(gets)].status \notin 200..299
Fetched     == gets # << >> /\ gets[Len(gets)].status \in 200..299

Printed(kind) == { k \in 1..Len(stdout) : stdout[k].msg = kind }

FailedPosts == { k \in 1..Len(posts) : posts[k].status \notin 200..299 }

\* --------------------------------------------------------------------------
\* C1: in live mode every fetched worklog of a non-empty batch is posted
\* exactly once, in fetch order, whatever the create calls answer, and each
\* call is reported as a success exactly when its status is in 200..299.
\* (Stated on the finished run.)
\* --------------------------------------------------------------------------
C1_LiveOnePostPerWorklog ==
    (Exited /\ Fetched /\ ~dry_run /\ Len(worklogs) >= 1) =>
        /\ Len(posts) = Len(worklogs)
        /\ \A k \in 1..Len(posts) :
             /\ posts[k].payload.issueId = worklogs[k].issue.id
             /\ LET report == stdout[2 + k] IN
                IF posts[k].status \in 200..299
                THEN report.msg = "created" ELSE report.msg = "failed"

\* --------------------------------------------------------------------------
\* C2: in dry-run mode the finished run has printed exactly one "would
\* create" report per fetched worklog, in fetch order, and no state of the
\* run has a POST; the single GET is the only remote call.
\* --------------------------------------------------------------------------
C2_DryRunOneReportPerWorklog ==
    dry_run =>
        /\ posts = << >>
        /\ Len(gets) <= 1
        /\ (Exited /\ Fetched) =>
             /\ Cardinality(Printed("would_create")) = Len(worklogs)
             /\ \A k \in 1..Len(worklogs) :
                  /\ stdout[2 + k].msg = "would_create"
                  /\ stdout[2 + k].payload.issueId = worklogs[k].issue.id

\* --------------------------------------------------------------------------
\* C3: a malformed record does not end the batch: in the finished run every
\* well-formed fetched worklog has been transformed (and so posted or
\* reported), also those that follow a malformed one, and no exception
\* ended the run.
\* --------------------------------------------------------------------------
C3_MalformedRecordSkipped ==
    (Exited /\ Fetched) =>
        /\ Len(payloads) = Cardinality({ k \in 1..Len(worklogs) : WellFormed(worklogs[k]) })
        /\ uncaught = None

C5_StartDateShiftedByDelta ==
    /\ pc = "loop" => delta_days = RefDaysFromTo(source_start, destination_start)
    /\ \A k \in 1..Len(payloads) :
         /\ IsIsoDate(payloads[k].startDate)
         /\ RefDaysFromTo(IsoDate(worklogs[k].startDate), IsoDate(payloads[k].startDate))
              = RefDaysFromTo(source_start, destination_start)

\* Jan 30 + 3 days = Feb 2: the shift across a month boundary
C5_Witness ==
    /\ Len(payloads) >= 1
    /\ worklogs[1].startDate = <<"2", "0", "2", "4", "-", "0", "1", "-", "3", "0">>
    /\ delta_days = 3
    /\ payloads[1].startDate = <<"2", "0", "2", "4", "-", "0", "2", "-", "0", "2">>

\* --------------------------------------------------------------------------
\* C6: every payload built carries its worklog's issue id, startTime and
\* timeSpentSeconds unchanged, the operator's account id as author, the
\* worklog's description or "Copied worklog" when it has none, and the
\* worklog's attributes.values or the empty list when it has none; these
\* fields are the same for every delta.
\* --------------------------------------------------------------------------
C6_FieldsCopiedVerbatim ==
    \A k \in 1..Len(payloads) :
        LET w == worklogs[k]
            p == payloads[k]
        IN  /\ DOMAIN p = {"attributes", "authorAccountId", "issueId",
                           "timeSpentSeconds", "startDate", "startTime",
                           "description"}
            /\ p.issueId = w.issue.id
            /\ p.startTime = w.startTime
            /\ p.timeSpentSeconds = w.timeSpentSeconds
            /\ p.authorAccountId = env_account
            /\ "description" \in DOMAIN w => p.description = w.description
            /\ "description" \notin DOMAIN w => p.description = "Copied worklog"
            /\ ("attributes" \in DOMAIN w /\ "values" \in DOMAIN w.attributes)
                 => p.attributes = w.attributes.values
            /\ ("attributes" \notin DOMAIN w \/ "values" \notin DOMAIN w.attributes)
                 => p.attributes = << >>

\* delta 0, another author's worklog without description and attributes
C6_Witness ==
    /\ Len(payloads) >= 1
    /\ delta_days = 0
    /\ worklogs[1].author.accountId # env_account
    /\ "description" \notin DOMAIN worklogs[1]
    /\ payloads[1].authorAccountId = env_account
    /\ payloads[1].description = "Copied worklog"
    /\ payloads[1].startDate = worklogs[1].startDate

C8_StartupErrorBeforeNetwork ==
    StartupError =>
        /\ gets = << >>
        /\ posts = << >>
        /\ pc \in {"main", "parse", "exit"}
        /\ pc = "main" => ENABLED CheckEnv
        /\ pc = "parse" => ENABLED ParseDates
        /\ Exited => exit_status # 0

\* credentials present, the destination date unparseable
C8_Witness ==
    /\ Exited /\ exit_status = 1
    /\ env_token \notin {None, ""} /\ env_account \notin {None, ""}
    /\ ~NotADate(arg_source) /\ NotADate(arg_dest)
    /\ gets = << >>

\* --------------------------------------------------------------------------
\* C9: when the fetch answers with an empty list the run is over at once:
\* "no worklogs" is the last thing printed, nothing was transformed or
\* posted, no exception was raised and the exit status is 0, in live and in
\* dry-run mode.
\* --------------------------------------------------------------------------
C9_EmptyFetchNothingToDo ==
    (Fetched /\ Len(worklogs) = 0) =>
        /\ Exited
        /\ exit_status = 0
        /\ uncaught = None
        /\ stdout[Len(stdout)].msg = "no_worklogs"
        /\ Printed("all_copied") = {} /\ Printed("dry_run_complete") = {}
        /\ payloads = << >>
        /\ posts = << >>
        /\ Len(gets) = 1

C9_Witness == Fetched /\ Len(worklogs) = 0 /\ Exited /\ ~dry_run

\* --------------------------------------------------------------------------
\* C10: in a live run the reports count the failed and the successful create
\* calls, and the summary "all worklogs copied successfully" is printed only
\* when no create call failed.
\* --------------------------------------------------------------------------
C10_SummaryAgreesWithReports ==
    (Exited /\ ~dry_run) =>
        /\ Cardinality(Printed("failed")) = Cardinality(FailedPosts)
        /\ Cardinality(Printed("created")) = Len(posts) - Cardinality(FailedPosts)
        /\ Printed("all_copied") # {} => FailedPosts = {}

====
